---- MODULE Spec2Model ----
(***************************************************************************)
(* rehype-custom-toc: generateToc (heading collection and the depth-stack  *)
(* outline builder) and the transformer that places the outline at the     *)
(* "toc" comment markers of a HAST document (src/src/index.ts).            *)
(***************************************************************************)
EXTENDS Integers, Sequences, FiniteSets, TLC

VARIABLES
    doc,            \* the HAST tree: node id -> node record, node 1 is the root
    doc0,           \* the tree as it was handed to the transformer
    maxDepth,       \* options.maxDepth
    template,       \* options.template, as the number of nodes its markup parses into
    pc,             \* position in transformer/generateToc
    headings,       \* the headings array of generateToc
    hi,             \* position of the for..of loop over headings (1-based)
    i,              \* the counter of the pop loop of the shallower branch
    currentDepth,
    currentParent,
    parents,
    toc,            \* the outline under construction: list id -> children, list 1 is `toc`
    tocNodes,       \* the node ids generateToc returned
    tocInserted,
    walk            \* visitParents: the stack of (node, next child offset)

vars == << doc, doc0, maxDepth, template, pc, headings, hi, i, currentDepth,
           currentParent, parents, toc, tocNodes, tocInserted, walk >>

\* ------------------------------------------------------------------ bounds
MaxHeadings == 4
MaxLevel == 4
MaxBlocks == 3
MaxTemplateNodes == 2
MaxIdHeadings == 3

\* ------------------------------------------------------- program constants
DefaultMaxDepth == 3
DefaultTemplateNodes == 1
HeadingTags == << "h1", "h2", "h3", "h4", "h5", "h6" >>
Undefined == 0
Root == 1
TocList == 1

\* ---------------------------------------------------------------- strings
\* Strings are sequences of one-character strings.
Space == " "
Upper == << "A", "C", "O", "T" >>
Lower == << "a", "c", "o", "t" >>
Digits == << "0", "1", "2", "3", "4", "5", "6", "7", "8", "9" >>

LowerChar(c) ==
    IF \E k \in 1..Len(Upper) : Upper[k] = c
    THEN Lower[CHOOSE k \in 1..Len(Upper) : Upper[k] = c]
    ELSE c

ToLowerCase(s) == [k \in 1..Len(s) |-> LowerChar(s[k])]

RECURSIVE TrimStart(_)
TrimStart(s) ==
    IF s # << >> /\ Head(s) = Space THEN TrimStart(Tail(s)) ELSE s

RECURSIVE TrimEnd(_)
TrimEnd(s) ==
    IF s # << >> /\ s[Len(s)] = Space THEN TrimEnd(SubSeq(s, 1, Len(s) - 1)) ELSE s

Trim(s) == TrimEnd(TrimStart(s))

RECURSIVE NumStr(_)
NumStr(n) ==
    IF n < 10 THEN << Digits[n + 1] >>
    ELSE NumStr(n \div 10) \o << Digits[(n % 10) + 1] >>

\* github-slugger's slug(): lower-case, spaces become hyphens.
Slugify(s) ==
    [k \in 1..Len(s) |-> IF s[k] = Space THEN "-" ELSE LowerChar(s[k])]

\* GitHubSlugger.slug(value) with the occurrences table occ (slug -> count):
\* returns [slug, occ].
RECURSIVE SluggerLoop(_, _, _)
SluggerLoop(occ, original, result) ==
    IF result \in DOMAIN occ
    THEN LET n == occ[original] + 1
         IN SluggerLoop([occ EXCEPT ![original] = n], original,
                        original \o << "-" >> \o NumStr(n))
    ELSE [slug |-> result,
          occ |-> [r \in DOMAIN occ \cup {result} |->
                      IF r = result THEN 0 ELSE occ[r]]]

SluggerSlug(occ, value) == SluggerLoop(occ, Slugify(value), Slugify(value))

\* ------------------------------------------------------------------ trees
Node(type, tagName, value, children, id, text) ==
    [type |-> type, tagName |-> tagName, value |-> value,
     children |-> children, id |-> id, text |-> text]

RootNode(children) == Node("root", "", << >>, children, << >>, << >>)
Element(tagName, children) == Node("element", tagName, << >>, children, << >>, << >>)
Comment(value) == Node("comment", "", value, << >>, << >>, << >>)
Text == Node("text", "", << >>, << >>, << >>, << >>)
Heading(depth, id, text) == Node("element", HeadingTags[depth], << >>, << >>, id, text)

IndexOf(s, x) ==
    IF \E k \in 1..Len(s) : s[k] = x
    THEN (CHOOSE k \in 1..Len(s) : s[k] = x /\ \A j \in 1..(k - 1) : s[j] # x) - 1
    ELSE -1

\* splice(start, 0, ...items): inserts without removing
SpliceInsert(s, start, items) ==
    LET from == IF start < 0
                THEN (IF Len(s) + start < 0 THEN 0 ELSE Len(s) + start)
                ELSE (IF start > Len(s) THEN Len(s) ELSE start)
    IN SubSeq(s, 1, from) \o items \o SubSeq(s, from + 1, Len(s))

\* Array.prototype.splice(start, 1, ...items), start 0-based.
Splice(s, start, items) ==
    LET from == IF start < 0
                THEN (IF Len(s) + start < 0 THEN 0 ELSE Len(s) + start)
                ELSE (IF start > Len(s) THEN Len(s) ELSE start)
    IN SubSeq(s, 1, from) \o items \o SubSeq(s, from + 2, Len(s))

\* Depth-first, pre-order node ids of the subtree at n (unist-util-visit).
RECURSIVE PreOrder(_, _)
RECURSIVE PreOrderAll(_, _, _)
PreOrder(d, n) == << n >> \o PreOrderAll(d, d[n].children, 1)
PreOrderAll(d, cs, k) ==
    IF k > Len(cs) THEN << >>
    ELSE PreOrder(d, cs[k]) \o PreOrderAll(d, cs, k + 1)

IsHeading(nd) ==
    nd.type = "element" /\ \E k \in 1..Len(HeadingTags) : HeadingTags[k] = nd.tagName

\* parseInt(node.tagName.slice(1), 10)
DepthOf(nd) == CHOOSE k \in 1..Len(HeadingTags) : HeadingTags[k] = nd.tagName

\* ------------------------------------------------- generateToc: collection
\* line 96: (node.properties["id"] as string) || slugger.slug(text)
ResolveSlug(id, fresh) == IF id # << >> THEN id ELSE fresh

\* line 97 calling the slugger a second time for the value written back
WrittenIdSluggedAgain(old, slug, again) == again

\* line 97 left out: the node keeps what it had
WrittenIdKept(old, slug, again) == old

\* line 97: node.properties["id"] = slug
WrittenId(old, slug, again) == slug

\* The visit() callback over the elements in document order: [doc, headings].
RECURSIVE CollectFrom(_, _, _, _, _)
CollectFrom(d, order, k, occ, hs) ==
    IF k > Len(order) THEN [doc |-> d, headings |-> hs]
    ELSE LET n == order[k]
             nd == d[n]
         IN IF ~IsHeading(nd) THEN CollectFrom(d, order, k + 1, occ, hs)
            ELSE LET text == Trim(nd.text)
                     fresh == SluggerSlug(occ, text)
                     slug == ResolveSlug(nd.id, fresh.slug)
                     occ2 == IF nd.id # << >> THEN occ ELSE fresh.occ
                     again == SluggerSlug(occ2, text).slug
                 IN CollectFrom([d EXCEPT ![n].id = WrittenId(nd.id, slug, again)],
                                order, k + 1, occ2,
                                Append(hs, [depth |-> DepthOf(nd), slug |-> slug,
                                            text |-> text, node |-> n]))

VisitHeadings(d) == CollectFrom(d, PreOrder(d, Root), 1, << >>, << >>)

\* ---------------------------------------------------- generateToc: builder
\* The builder's locals as one record; err is set once the Error is thrown.
Cur ==
    [currentDepth |-> currentDepth, currentParent |-> currentParent,
     parents |-> parents, toc |-> toc, err |-> pc = "error"]

Li(k) == [kind |-> "li", ref |-> k]
Ul(l) == [kind |-> "ul", ref |-> l]

\* lines 109-111
OpenRootState(hs) ==
    [currentDepth |-> hs[1].depth, currentParent |-> TocList,
     parents |-> << TocList >>, toc |-> << << >> >>, err |-> FALSE]

\* line 115 with the bound off by one
EligibleOffByOne(h, md) == ~(h.depth > md + 1)

\* line 115
Eligible(h, md) == ~(h.depth > md)

\* the early return taken when no heading is eligible
NoEligibleHeadings(hs, md) == \A k \in 1..Len(hs) : ~Eligible(hs[k], md)

\* line 107: !isNonEmptyArray(headings), tested before maxDepth is looked at
NoHeadings(hs, md) == hs = << >>

\* children.unshift(x) in place of push
PushFront(children, x) == << x >> \o children

\* children.push(x)
Push(children, x) == Append(children, x)

\* lines 119-122
SameStep(st, k, h) ==
    [st EXCEPT !.toc[st.currentParent] = Push(@, Li(k)),
               !.currentDepth = h.depth]

\* the deeper branch opening one nested list per level of the jump
RECURSIVE OpenLists(_, _)
OpenLists(st, n) ==
    IF n <= 0 THEN st
    ELSE LET ul == Len(st.toc) + 1
         IN OpenLists([st EXCEPT
                !.toc = Append([st.toc EXCEPT ![st.currentParent] = Append(@, Ul(ul))],
                               << >>),
                !.currentParent = ul,
                !.parents = Append(st.parents, ul)], n - 1)

DeeperPerLevel(st, k, h) ==
    LET o == OpenLists(st, h.depth - st.currentDepth)
    IN [o EXCEPT !.toc[o.currentParent] = Append(@, Li(k)),
                 !.currentDepth = h.depth]

\* lines 123-130: ul = h("ul", li) is pushed onto currentParent and becomes it
DeeperStep(st, k, h) ==
    LET ul == Len(st.toc) + 1
    IN [st EXCEPT !.toc = Append([st.toc EXCEPT ![st.currentParent] = Push(@, Ul(ul))],
                                 << Li(k) >>),
                  !.currentParent = ul,
                  !.parents = Append(st.parents, ul),
                  !.currentDepth = h.depth]

\* the pop loop running once whatever the gap
PopCountOne(st, h) == 1

\* the pop loop running one time more than the gap
PopCountInclusive(st, h) == st.currentDepth - h.depth + 1

\* line 134: the bound of the pop loop
PopCount(st, h) == st.currentDepth - h.depth

\* Array.prototype.pop()
Pop(s) == IF s = << >> THEN s ELSE SubSeq(s, 1, Len(s) - 1)

\* parents[parents.length - 1]
Last(s) == IF s = << >> THEN Undefined ELSE s[Len(s)]

\* lines 135-142: one iteration of the pop loop
PopStep(st) ==
    LET ps == Pop(st.parents)
        parentNode == Last(ps)
    IN IF parentNode = Undefined
       THEN [st EXCEPT !.parents = ps, !.err = TRUE]
       ELSE [st EXCEPT !.parents = ps, !.currentParent = parentNode]

\* lines 145-146
AppendStep(st, k, h) ==
    [st EXCEPT !.toc[st.currentParent] = Push(@, Li(k)),
               !.currentDepth = h.depth]

\* lines 134-143 run to the end
RECURSIVE PopLoop(_, _, _)
PopLoop(st, n, h) ==
    IF ~(n < PopCount(st, h)) THEN st
    ELSE LET st2 == PopStep(st)
         IN IF st2.err THEN st2 ELSE PopLoop(st2, n + 1, h)

\* lines 113-148 from heading k on, over the headings hs
RECURSIVE RunFrom(_, _, _, _)
RunFrom(st, hs, k, md) ==
    IF k > Len(hs) \/ st.err THEN st
    ELSE LET h == hs[k]
         IN IF ~Eligible(h, md) THEN RunFrom(st, hs, k + 1, md)
            ELSE IF h.depth = st.currentDepth
                 THEN RunFrom(SameStep(st, k, h), hs, k + 1, md)
            ELSE IF h.depth > st.currentDepth
                 THEN RunFrom(DeeperStep(st, k, h), hs, k + 1, md)
            ELSE LET popped == PopLoop(st, 0, h)
                 IN IF popped.err THEN popped
                    ELSE RunFrom(AppendStep(popped, k, h), hs, k + 1, md)

\* lines 107-148 on the headings hs: the builder's final locals
EmptyState ==
    [currentDepth |-> 0, currentParent |-> TocList, parents |-> << TocList >>,
     toc |-> << << >> >>, err |-> FALSE]

BuildToc(hs, md) ==
    IF NoHeadings(hs, md) THEN EmptyState ELSE RunFrom(OpenRootState(hs), hs, 1, md)

\* toHtml(toc): the outline as a token sequence; an li carries its link
RECURSIVE ToHtml(_, _, _)
RECURSIVE ToHtmlChildren(_, _, _, _)
ToHtml(t, l, hs) ==
    << [tok |-> "ul", href |-> << >>, text |-> << >>] >>
    \o ToHtmlChildren(t, t[l], 1, hs)
    \o << [tok |-> "/ul", href |-> << >>, text |-> << >>] >>
ToHtmlChildren(t, cs, k, hs) ==
    IF k > Len(cs) THEN << >>
    ELSE (IF cs[k].kind = "li"
          THEN << [tok |-> "li", href |-> << "#" >> \o hs[cs[k].ref].slug,
                   text |-> hs[cs[k].ref].text] >>
          ELSE ToHtml(t, cs[k].ref, hs))
         \o ToHtmlChildren(t, cs, k + 1, hs)

\* The list items of list l in pre-order, each with its nesting level.
RECURSIVE Items(_, _, _)
RECURSIVE ItemsOf(_, _, _, _)
Items(t, l, level) == ItemsOf(t, t[l], 1, level)
ItemsOf(t, cs, k, level) ==
    IF k > Len(cs) THEN << >>
    ELSE (IF cs[k].kind = "li"
          THEN << [ref |-> cs[k].ref, level |-> level] >>
          ELSE Items(t, cs[k].ref, level + 1))
         \o ItemsOf(t, cs, k + 1, level)

\* ------------------------------------------------------------ documents
\* A document is a sequence of blocks under the root.
HeadingText == << "A", " " >>
MarkerValue == << " ", "T", "O", "C", " " >>
PlainMarkerValue == << "t", "o", "c" >>
OtherCommentValue == << "t", "o", "c", "a" >>

Block(b, depth) == [b |-> b, depth |-> depth]

\* The nodes of one block, the block's own node first, ids from base + 1.
BlockNodes(blk, base) ==
    CASE blk.b = "h" -> << Heading(blk.depth, << >>, HeadingText) >>
      [] blk.b = "hid" -> << Heading(blk.depth, blk.id, blk.text) >>
      [] blk.b = "c" -> << Comment(MarkerValue) >>
      [] blk.b = "n" -> << Comment(OtherCommentValue) >>
      [] blk.b = "x" -> << Text >>
      [] blk.b = "pc" -> << Element("p", << base + 2 >>), Comment(PlainMarkerValue) >>
      [] blk.b = "pxc" -> << Element("p", << base + 2, base + 3 >>), Text,
                             Comment(PlainMarkerValue) >>
      [] blk.b = "dc" -> << Element("div", << base + 2 >>), Comment(MarkerValue) >>
      [] blk.b = "dpc" -> << Element("div", << base + 2, base + 4 >>),
                             Element("p", << base + 3 >>), Comment(PlainMarkerValue),
                             Text >>

RECURSIVE AddBlocks(_, _, _)
AddBlocks(nodes, blocks, k) ==
    IF k > Len(blocks) THEN nodes
    ELSE LET base == Len(nodes)
             withRoot == [nodes EXCEPT ![Root].children = Append(@, base + 1)]
         IN AddBlocks(withRoot \o BlockNodes(blocks[k], base), blocks, k + 1)

Document(blocks) == AddBlocks(<< RootNode(<< >>) >>, blocks, 1)

SeqsUpTo(S, n) == UNION { [1..m -> S] : m \in 0..n }

HeadingBlocks == { Block("h", d) : d \in 1..MaxLevel }
PlaceBlocks ==
    { Block("h", 1), Block("h", 2), Block("h", DefaultMaxDepth + 1) }
    \cup { Block(b, 0) : b \in {"c", "n", "x", "pc", "pxc", "dc", "dpc"} }

\* Headings with and without an id of their own: [id, text] pairs.
EmptyText == << " " >>
IdChoices ==
    { [id |-> << >>, text |-> HeadingText],
      [id |-> << >>, text |-> EmptyText],
      [id |-> << "a" >>, text |-> HeadingText],
      [id |-> << "a", "-", "1" >>, text |-> HeadingText] }
IdDepths == {1, 2}
IdBlocks == { [b |-> "hid", depth |-> d, id |-> c.id, text |-> c.text] :
                 d \in IdDepths, c \in IdChoices }

\* line 170 comparing the raw comment value
IsMarkerExact(nd) ==
    nd.type = "comment" /\ nd.value = << "t", "o", "c" >>

\* comment.value.trim().toLowerCase() === "toc"
IsMarker(nd) ==
    nd.type = "comment" /\ ToLowerCase(Trim(nd.value)) = << "t", "o", "c" >>

\* 'children' in node
HasChildren(nd) == nd.type \in {"root", "element"}

\* ----------------------------------------------------------------- state
InitWith(d, md, tpl) ==
    /\ doc = d
    /\ doc0 = d
    /\ maxDepth = md
    /\ template = tpl
    /\ pc = "start"
    /\ headings = << >>
    /\ hi = 0
    /\ i = 0
    /\ currentDepth = 0
    /\ currentParent = TocList
    /\ parents = << TocList >>
    /\ toc = << << >> >>
    /\ tocNodes = << >>
    /\ tocInserted = FALSE
    /\ walk = << >>

\* generateToc on documents made of headings only, any maxDepth
Init ==
    \E blocks \in SeqsUpTo(HeadingBlocks, MaxHeadings), md \in 1..MaxLevel :
        InitWith(Document(blocks), md, DefaultTemplateNodes)

\* the transformer on documents with markers, default maxDepth
InitTransformer ==
    \E blocks \in SeqsUpTo(PlaceBlocks, MaxBlocks), tpl \in 1..MaxTemplateNodes :
        InitWith(Document(blocks), DefaultMaxDepth, tpl)

\* generateToc on headings some of which bring their own id
InitIds ==
    \E blocks \in SeqsUpTo(IdBlocks, MaxIdHeadings), md \in IdDepths :
        InitWith(Document(blocks), md, DefaultTemplateNodes)

SetBuilder(st) ==
    /\ currentDepth' = st.currentDepth
    /\ currentParent' = st.currentParent
    /\ parents' = st.parents
    /\ toc' = st.toc

\* ---------------------------------------------------- generateToc actions
\* lines 90-105
CollectHeadings ==
    /\ pc = "start"
    /\ LET r == VisitHeadings(doc)
       IN /\ doc' = r.doc
          /\ headings' = r.headings
    /\ pc' = "collected"
    /\ UNCHANGED << doc0, maxDepth, template, hi, i, currentDepth, currentParent,
                    parents, toc, tocNodes, tocInserted, walk >>

\* line 107, then lines 167-169 of the transformer
ReturnNoHeadings ==
    /\ pc = "collected"
    /\ NoHeadings(headings, maxDepth)
    /\ tocNodes' = << >>
    /\ tocInserted' = FALSE
    /\ walk' = << [node |-> Root, offset |-> 0] >>
    /\ pc' = "scan"
    /\ UNCHANGED << doc, doc0, maxDepth, template, headings, hi, i, currentDepth,
                    currentParent, parents, toc >>

\* lines 109-111
OpenRoot ==
    /\ pc = "collected"
    /\ ~NoHeadings(headings, maxDepth)
    /\ SetBuilder(OpenRootState(headings))
    /\ hi' = 1
    /\ i' = 0
    /\ pc' = "loop"
    /\ UNCHANGED << doc, doc0, maxDepth, template, headings, tocNodes, tocInserted,
                    walk >>

AtHeading == pc = "loop" /\ hi <= Len(headings)

\* line 115
SkipHeading ==
    /\ AtHeading
    /\ ~Eligible(headings[hi], maxDepth)
    /\ hi' = hi + 1
    /\ UNCHANGED << doc, doc0, maxDepth, template, pc, headings, i, currentDepth,
                    currentParent, parents, toc, tocNodes, tocInserted, walk >>

\* lines 119-122
SameLevel ==
    /\ AtHeading
    /\ Eligible(headings[hi], maxDepth)
    /\ headings[hi].depth = currentDepth
    /\ SetBuilder(SameStep(Cur, hi, headings[hi]))
    /\ hi' = hi + 1
    /\ UNCHANGED << doc, doc0, maxDepth, template, pc, headings, i, tocNodes,
                    tocInserted, walk >>

\* lines 123-130
Deeper ==
    /\ AtHeading
    /\ Eligible(headings[hi], maxDepth)
    /\ headings[hi].depth > currentDepth
    /\ SetBuilder(DeeperStep(Cur, hi, headings[hi]))
    /\ hi' = hi + 1
    /\ UNCHANGED << doc, doc0, maxDepth, template, pc, headings, i, tocNodes,
                    tocInserted, walk >>

InShallower ==
    /\ AtHeading
    /\ Eligible(headings[hi], maxDepth)
    /\ headings[hi].depth < currentDepth

\* lines 134-142, an iteration that finds a parent
PopFrame ==
    /\ InShallower
    /\ i < PopCount(Cur, headings[hi])
    /\ ~PopStep(Cur).err
    /\ SetBuilder(PopStep(Cur))
    /\ i' = i + 1
    /\ UNCHANGED << doc, doc0, maxDepth, template, pc, headings, hi, tocNodes,
                    tocInserted, walk >>

\* lines 134-140, the iteration that throws
PopThrow ==
    /\ InShallower
    /\ i < PopCount(Cur, headings[hi])
    /\ PopStep(Cur).err
    /\ SetBuilder(PopStep(Cur))
    /\ pc' = "error"
    /\ UNCHANGED << doc, doc0, maxDepth, template, headings, hi, i, tocNodes,
                    tocInserted, walk >>

\* lines 145-146, after the pop loop
AppendAfterPop ==
    /\ InShallower
    /\ ~(i < PopCount(Cur, headings[hi]))
    /\ SetBuilder(AppendStep(Cur, hi, headings[hi]))
    /\ i' = 0
    /\ hi' = hi + 1
    /\ UNCHANGED << doc, doc0, maxDepth, template, pc, headings, tocNodes,
                    tocInserted, walk >>

\* fromHtml(options.template(toHtml(toc)), {fragment: true}).children:
\* n fresh element nodes, none of them holding a comment
TemplateNodes(n) == [k \in 1..n |-> Element("aside", << >>)]

\* line 150, then lines 167-169 of the transformer
ReturnToc ==
    /\ pc = "loop"
    /\ hi > Len(headings)
    /\ doc' = doc \o TemplateNodes(template)
    /\ tocNodes' = [k \in 1..template |-> Len(doc) + k]
    /\ tocInserted' = FALSE
    /\ walk' = << [node |-> Root, offset |-> 0] >>
    /\ pc' = "scan"
    /\ UNCHANGED << doc0, maxDepth, template, headings, hi, i, currentDepth,
                    currentParent, parents, toc >>

GenerateToc ==
    \/ CollectHeadings
    \/ ReturnNoHeadings
    \/ OpenRoot
    \/ SkipHeading
    \/ SameLevel
    \/ Deeper
    \/ PopFrame
    \/ PopThrow
    \/ AppendAfterPop
    \/ ReturnToc

Spec == Init /\ [][GenerateToc]_vars

SpecIds == InitIds /\ [][GenerateToc]_vars

\* ---------------------------------------------------- transformer actions
\* visitParents(tree, "comment", ...): the innermost frame of the traversal,
\* the child it is about to visit and the ancestors of that child.
Scanning == pc = "scan" /\ walk # << >>
Top == walk[Len(walk)]
AtChild == Scanning /\ Top.offset < Len(doc[Top.node].children)
Child == doc[Top.node].children[Top.offset + 1]
Advance == [walk EXCEPT ![Len(walk)].offset = @ + 1]

\* ancestors.at(-1) and ancestors.at(-2)
ParentOf(w) == w[Len(w)].node
GrandOf(w) == IF Len(w) < 2 THEN Undefined ELSE w[Len(w) - 1].node

\* line 177 without the test of the tag name
IsSoleChild(parent) ==
    parent.type = "element" /\ Len(parent.children) = 1

\* line 177
IsSoleParagraphChild(parent) ==
    parent.type = "element" /\ parent.tagName = "p" /\ Len(parent.children) = 1

\* lines 179-182
ReplaceParent(d, grand, parent, nodes) ==
    [d EXCEPT ![grand].children = Splice(@, IndexOf(@, parent), nodes)]

\* lines 174, 185
ReplaceNode(d, parent, node, nodes) ==
    [d EXCEPT ![parent].children = Splice(@, IndexOf(@, node), nodes)]

\* a node that is not a comment: the visitor is not called, its children follow
ScanDescend ==
    /\ AtChild
    /\ doc[Child].type # "comment"
    /\ HasChildren(doc[Child])
    /\ walk' = Append(Advance, [node |-> Child, offset |-> 0])
    /\ UNCHANGED << doc, doc0, maxDepth, template, pc, headings, hi, i, currentDepth,
                    currentParent, parents, toc, tocNodes, tocInserted >>

ScanLeaf ==
    /\ AtChild
    /\ doc[Child].type # "comment"
    /\ ~HasChildren(doc[Child])
    /\ walk' = Advance
    /\ UNCHANGED << doc, doc0, maxDepth, template, pc, headings, hi, i, currentDepth,
                    currentParent, parents, toc, tocNodes, tocInserted >>

\* line 170
ScanOtherComment ==
    /\ AtChild
    /\ doc[Child].type = "comment"
    /\ ~IsMarker(doc[Child])
    /\ walk' = Advance
    /\ UNCHANGED << doc, doc0, maxDepth, template, pc, headings, hi, i, currentDepth,
                    currentParent, parents, toc, tocNodes, tocInserted >>

\* lines 177-182, 187
ReplaceParagraph ==
    /\ AtChild
    /\ IsMarker(doc[Child])
    /\ IsSoleParagraphChild(doc[ParentOf(walk)])
    /\ doc' = ReplaceParent(doc, GrandOf(walk), ParentOf(walk), tocNodes)
    /\ tocInserted' = TRUE
    /\ walk' = Advance
    /\ UNCHANGED << doc0, maxDepth, template, pc, headings, hi, i, currentDepth,
                    currentParent, parents, toc, tocNodes >>

\* lines 183-187
ReplaceMarker ==
    /\ AtChild
    /\ IsMarker(doc[Child])
    /\ ~IsSoleParagraphChild(doc[ParentOf(walk)])
    /\ doc' = ReplaceNode(doc, ParentOf(walk), Child, tocNodes)
    /\ tocInserted' = TRUE
    /\ walk' = Advance
    /\ UNCHANGED << doc0, maxDepth, template, pc, headings, hi, i, currentDepth,
                    currentParent, parents, toc, tocNodes >>

\* the children of the innermost node are exhausted
ScanReturn ==
    /\ Scanning
    /\ ~(Top.offset < Len(doc[Top.node].children))
    /\ walk' = Pop(walk)
    /\ UNCHANGED << doc, doc0, maxDepth, template, pc, headings, hi, i, currentDepth,
                    currentParent, parents, toc, tocNodes, tocInserted >>

\* lines 191-193
PrependToc ==
    /\ pc = "scan"
    /\ walk = << >>
    /\ ~tocInserted
    /\ doc' = [doc EXCEPT ![Root].children = tocNodes \o @]
    /\ pc' = "done"
    /\ UNCHANGED << doc0, maxDepth, template, headings, hi, i, currentDepth,
                    currentParent, parents, toc, tocNodes, tocInserted, walk >>

\* line 191 with tocInserted set
Finish ==
    /\ pc = "scan"
    /\ walk = << >>
    /\ tocInserted
    /\ pc' = "done"
    /\ UNCHANGED << doc, doc0, maxDepth, template, headings, hi, i, currentDepth,
                    currentParent, parents, toc, tocNodes, tocInserted, walk >>

Next ==
    \/ CollectHeadings
    \/ ReturnNoHeadings
    \/ OpenRoot
    \/ SkipHeading
    \/ SameLevel
    \/ Deeper
    \/ PopFrame
    \/ PopThrow
    \/ AppendAfterPop
    \/ ReturnToc
    \/ ScanDescend
    \/ ScanLeaf
    \/ ScanOtherComment
    \/ ReplaceParagraph
    \/ ReplaceMarker
    \/ ScanReturn
    \/ PrependToc
    \/ Finish

SpecTransformer == InitTransformer /\ [][Next]_vars

\* ------------------------------------------------------------ properties
Built == pc \in {"scan", "done"}
Thrown == pc = "error"
Depths(hs) == [k \in 1..Len(hs) |-> hs[k].depth]
EligibleOnly(hs, md) == SelectSeq(hs, LAMBDA h : Eligible(h, md))
AllEligible == \A k \in 1..Len(headings) : headings[k].depth <= maxDepth
OutlineItems == Items(toc, TocList, 1)

\* What a build gives: the error, or the outline with each item's link.
Outcome(st, hs) ==
    IF st.err THEN << [tok |-> "error", href |-> << >>, text |-> << >>] >>
    ELSE ToHtml(st.toc, TocList, hs)

\* C1: once the build has ended (returned or thrown), its outcome equals the
\* outcome of the build over the same headings with every heading deeper than
\* maxDepth removed: the same outline, or an error in both.
C1_OverDepthHeadingsDoNotMatter ==
    (Built \/ Thrown) =>
        Outcome(Cur, headings)
            = Outcome(BuildToc(EligibleOnly(headings, maxDepth), maxDepth),
                      EligibleOnly(headings, maxDepth))

\* C2: a document whose first heading is not depth 1 and is later followed by a
\* shallower heading (all of them within maxDepth) never ends in the thrown error.
C2_FirstHeadingBelowTopDoesNotThrow ==
    ( /\ Len(headings) >= 2
      /\ AllEligible
      /\ headings[1].depth > 1
      /\ \E k \in 2..Len(headings) : headings[k].depth < headings[1].depth )
    => ~Thrown

\* C3: in the built outline a nested list hangs under the last item of the list
\* it was opened from, so every direct child of a list is an item (one per heading
\* of that level); headings of depths 1,2,1 give a root list of exactly two items.
C3_NestedListUnderLastItem ==
    Built =>
        /\ \A l \in DOMAIN toc : \A k \in 1..Len(toc[l]) : toc[l][k].kind = "li"
        /\ (AllEligible /\ Depths(headings) = << 1, 2, 1 >>) => Len(toc[TocList]) = 2

\* C4: the error is thrown only if an eligible heading is shallower than the depth
\* the root frame was opened at (line 109); sequences that merely skip levels on
\* the way down (1,4,1 or 1,3,2,1) build without error.
C4_ThrowsOnlyBelowRootDepth ==
    Thrown =>
        \E k \in 1..Len(headings) :
            /\ Eligible(headings[k], maxDepth)
            /\ headings[k].depth < headings[1].depth

\* C5: a step that takes the deeper branch, whatever the size of the jump, pushes
\* exactly one frame and opens exactly one list, and the new item lies exactly
\* one nesting level below the item appended before it.
C5_DeeperOpensOneList ==
    [][ ( /\ AtHeading
          /\ Eligible(headings[hi], maxDepth)
          /\ headings[hi].depth > currentDepth )
        => ( /\ Len(parents') = Len(parents) + 1
             /\ Len(toc') = Len(toc) + 1
             /\ OutlineItems # << >>
             /\ LET before == OutlineItems
                    after == Items(toc', TocList, 1)
                IN /\ Len(after) = Len(before) + 1
                   /\ after[Len(after)].ref = hi
                   /\ after[Len(after)].level = before[Len(before)].level + 1 ) ]_vars

\* C5 witness: a jump from depth 1 to depth 4 has been taken.
C5_Witness ==
    /\ pc = "loop"
    /\ hi >= 3
    /\ headings[hi - 2].depth = 1
    /\ headings[hi - 1].depth = 4
    /\ currentDepth = 4
    /\ Len(parents) = 2
    /\ Len(toc) = 2

\* C6: at every step, no item of the outline is for a heading deeper than maxDepth.
C6_NoItemBeyondMaxDepth ==
    \A k \in 1..Len(OutlineItems) : headings[OutlineItems[k].ref].depth <= maxDepth

\* C6 witness: a build returned items although the document has an over-depth heading.
C6_Witness ==
    /\ Built
    /\ OutlineItems # << >>
    /\ \E k \in 1..Len(headings) : headings[k].depth > maxDepth

\* The precondition of C7: starts at depth 1, never deepens by more than one level
\* at a step, every depth within maxDepth.
Regular(hs, md) ==
    /\ hs # << >>
    /\ hs[1].depth = 1
    /\ \A k \in 2..Len(hs) : hs[k].depth <= hs[k - 1].depth + 1
    /\ \A k \in 1..Len(hs) : hs[k].depth <= md

\* C7: for such a sequence the build does not throw, and once it has returned the
\* nesting levels of the items in document order are the input depths.
C7_DepthRoundTrip ==
    Regular(headings, maxDepth) =>
        /\ ~Thrown
        /\ Built => [k \in 1..Len(OutlineItems) |-> OutlineItems[k].level]
                        = Depths(headings)

\* C7 witness: the build of depths 1,2,3,1 has returned.
C7_Witness ==
    /\ Built
    /\ maxDepth = 3
    /\ Depths(headings) = << 1, 2, 3, 1 >>

\* The positions of the eligible headings, ascending.
RECURSIVE EligibleFrom(_, _, _)
EligibleFrom(hs, md, k) ==
    IF k > Len(hs) THEN << >>
    ELSE (IF hs[k].depth <= md THEN << k >> ELSE << >>) \o EligibleFrom(hs, md, k + 1)

\* C8: a returned outline has exactly one item per eligible heading, its pre-order
\* walk meets them in document order, and so do the items of every single list.
C8_ItemsInDocumentOrder ==
    Built =>
        /\ [k \in 1..Len(OutlineItems) |-> OutlineItems[k].ref]
               = EligibleFrom(headings, maxDepth, 1)
        /\ \A l \in DOMAIN toc : \A a, b \in 1..Len(toc[l]) :
               (a < b /\ toc[l][a].kind = "li" /\ toc[l][b].kind = "li")
                   => toc[l][a].ref < toc[l][b].ref

\* C8 witness: a returned outline with a nested list, a skipped heading and
\* two items in one list.
C8_Witness ==
    /\ Built
    /\ Len(toc) >= 2
    /\ Len(toc[TocList]) >= 3
    /\ Len(OutlineItems) < Len(headings)

\* ---------------------------------------------- properties of the placement
Attached(d, n) == \E k \in 1..Len(PreOrder(d, Root)) : PreOrder(d, Root)[k] = n
Occurrences(d, n) == Cardinality({ k \in 1..Len(PreOrder(d, Root)) : PreOrder(d, Root)[k] = n })
Markers(d) == SelectSeq(PreOrder(d, Root), LAMBDA n : IsMarker(d[n]))
ParentIn(d, n) ==
    CHOOSE g \in DOMAIN d :
        Attached(d, g) /\ \E k \in 1..Len(d[g].children) : d[g].children[k] = n
ReplacedAt(cs, k, nodes) == SubSeq(cs, 1, k - 1) \o nodes \o SubSeq(cs, k + 1, Len(cs))

\* C9 as claimed: when the transformer has run with an outline to place, every
\* marker that was the only child of its container element has had that container
\* replaced, and every other marker has been replaced itself, its container kept.
C9_SoleChildContainerReplaced ==
    (pc = "done" /\ tocNodes # << >>) =>
        \A k \in 1..Len(Markers(doc0)) :
            LET m == Markers(doc0)[k]
                par == ParentIn(doc0, m)
            IN IF doc0[par].type = "element" /\ Len(doc0[par].children) = 1
               THEN ~Attached(doc, par)
               ELSE ~Attached(doc, m) /\ Attached(doc, par)

\* C9 amended: each step that visits a marker replaces, when the marker is the
\* only child of a p element, that p element in its own parent by the outline
\* nodes, and in every other case the marker alone, in place; nothing else of
\* the document changes in that step.
C9_MarkerReplacement ==
    [][ (AtChild /\ IsMarker(doc[Child])) =>
        LET m == Child
            par == Top.node
            target == IF doc[par].type = "element" /\ doc[par].tagName = "p"
                         /\ doc[par].children = << m >>
                      THEN par ELSE m
            holder == ParentIn(doc, target)
        IN /\ tocInserted'
           /\ \E k \in 1..Len(doc[holder].children) :
                 /\ doc[holder].children[k] = target
                 /\ doc'[holder].children = ReplacedAt(doc[holder].children, k, tocNodes)
           /\ \A n \in DOMAIN doc : n # holder => doc'[n] = doc[n]
           /\ \A n \in DOMAIN doc :
                 doc'[n] = [doc[n] EXCEPT !.children = doc'[n].children] ]_vars

\* C9 witness: a p holding only a marker is gone from the tree, a marker that was
\* the only child of a div is gone while the div stays, and the outline is there.
C9_Witness ==
    /\ pc = "done"
    /\ tocNodes # << >>
    /\ Attached(doc, tocNodes[1])
    /\ \E n \in DOMAIN doc0 :
          /\ doc0[n].tagName = "p"
          /\ Len(doc0[n].children) = 1
          /\ IsMarker(doc0[doc0[n].children[1]])
          /\ ~Attached(doc, n)
    /\ \E n \in DOMAIN doc0 :
          /\ doc0[n].tagName = "div"
          /\ Len(doc0[n].children) = 1
          /\ IsMarker(doc0[doc0[n].children[1]])
          /\ Attached(doc, n)
          /\ doc[n].children = tocNodes

\* C10: when the document had more than one marker and there is an outline, the
\* finished document holds the outline exactly once, in place of the first marker,
\* and every other marker is still in the document.
C10_OnlyFirstMarkerReplaced ==
    (pc = "done" /\ tocNodes # << >> /\ Len(Markers(doc0)) > 1) =>
        /\ \A k \in 1..Len(tocNodes) : Occurrences(doc, tocNodes[k]) = 1
        /\ ~Attached(doc, Markers(doc0)[1])
        /\ \A k \in 2..Len(Markers(doc0)) : Attached(doc, Markers(doc0)[k])

\* A comment whose trimmed, lower-cased text is "toc", as the marker protocol
\* words it.
TocComment(nd) ==
    /\ nd.type = "comment"
    /\ ToLowerCase(Trim(nd.value)) = << "t", "o", "c" >>
HasTocComment(d) ==
    \E k \in 1..Len(PreOrder(d, Root)) : TocComment(d[PreOrder(d, Root)[k]])

\* C11: the step that ends the transformer puts the outline nodes in front of the
\* root's children exactly when the document it was given holds no such comment
\* anywhere; when it holds one, that step leaves the document as the scan left it.
C11_PrependIffNoMarker ==
    [][ (pc = "scan" /\ pc' = "done") =>
            /\ tocInserted <=> HasTocComment(doc0)
            /\ IF HasTocComment(doc0)
               THEN doc' = doc
               ELSE doc' = [doc EXCEPT ![Root].children = tocNodes \o @] ]_vars

\* C11 witness: a document with a comment that is no marker got the outline in front.
C11_Witness ==
    /\ pc = "done"
    /\ ~HasTocComment(doc0)
    /\ \E n \in DOMAIN doc0 : doc0[n].type = "comment"
    /\ tocNodes # << >>
    /\ doc[Root].children = tocNodes \o doc0[Root].children

HasHeading(d) == \E n \in DOMAIN d : IsHeading(d[n])

\* What the visitor replaces for marker m of document d: its p parent when m is
\* that p's only child, else m itself.
TargetOf(d, m) ==
    LET par == ParentIn(d, m)
    IN IF d[par].type = "element" /\ d[par].tagName = "p" /\ d[par].children = << m >>
       THEN par ELSE m

Without(d, n) ==
    LET holder == ParentIn(d, n)
    IN [d EXCEPT ![holder].children = SelectSeq(@, LAMBDA c : c # n)]

\* C12: when the document has no heading, the build returned nothing and the
\* finished transformer has created no node; without a marker the tree is as it
\* was, with a marker the first marker (or the p it was alone in) is gone with
\* nothing in its place, and with exactly one marker that is the only change.
C12_NoHeadingNothingAdded ==
    (pc = "done" /\ ~HasHeading(doc0)) =>
        /\ tocNodes = << >>
        /\ DOMAIN doc = DOMAIN doc0
        /\ \A n \in DOMAIN doc : Attached(doc, n) => Attached(doc0, n)
        /\ Markers(doc0) = << >> => doc = doc0
        /\ Markers(doc0) # << >> =>
               ~Attached(doc, TargetOf(doc0, Markers(doc0)[1]))
        /\ Len(Markers(doc0)) = 1 =>
               doc = Without(doc0, TargetOf(doc0, Markers(doc0)[1]))

\* C12 witness: a heading-less document with a marker alone in a p and two other
\* nodes has been transformed.
C12_Witness ==
    /\ pc = "done"
    /\ ~HasHeading(doc0)
    /\ Len(doc0[Root].children) = 3
    /\ Len(doc[Root].children) = 2
    /\ Len(Markers(doc0)) = 1
    /\ doc0[ParentIn(doc0, Markers(doc0)[1])].tagName = "p"
    /\ TargetOf(doc0, Markers(doc0)[1]) # Markers(doc0)[1]

\* ------------------------------------------------ properties of identifiers
\* Heading k got its identifier from the slugger (its node had none).
Generated(k) == doc0[headings[k].node].id = << >>

\* C13: once the headings are collected, no identifier that was generated for a
\* heading equals the identifier of an earlier heading, generated or pre-existing.
C13_GeneratedIdsAreNew ==
    pc # "start" =>
        \A k \in 1..Len(headings) : \A j \in 1..(k - 1) :
            Generated(k) => headings[k].slug # headings[j].slug

\* C14: collecting again over the document as the first collection left it gives
\* every heading the identifier it already has and changes no node.
C14_CollectingTwiceIsTheSame ==
    pc = "collected" =>
        /\ VisitHeadings(doc).headings = headings
        /\ VisitHeadings(doc).doc = doc

\* C14 witness: collected headings of which one kept its id, two had theirs
\* generated, one of these from an empty text.
C14_Witness ==
    /\ pc = "collected"
    /\ \E j, k, l \in 1..Len(headings) :
          /\ ~Generated(j)
          /\ Generated(k) /\ headings[k].slug = << >>
          /\ Generated(l) /\ headings[l].slug # << >>

\* The position of the k-th li token in toHtml(toc).
IndexOfItem(k) ==
    LET html == ToHtml(toc, TocList, headings)
    IN CHOOSE p \in 1..Len(html) :
          /\ html[p].tok = "li"
          /\ Cardinality({ q \in 1..p : html[q].tok = "li" }) = k

\* C15: once the build has returned, every item's link names the id stored on its
\* heading node; a node that had an id still has it, and a node that had none
\* carries the identifier generated for it.
C15_LinksMatchHeadingIds ==
    Built =>
        /\ \A k \in 1..Len(OutlineItems) :
              LET h == headings[OutlineItems[k].ref]
              IN ToHtml(toc, TocList, headings)[IndexOfItem(k)].href
                     = << "#" >> \o doc[h.node].id
        /\ \A k \in 1..Len(headings) :
              /\ ~Generated(k) => doc[headings[k].node].id = doc0[headings[k].node].id
              /\ Generated(k) => doc[headings[k].node].id = headings[k].slug

\* C15 witness: a returned outline with an item for a heading that kept its id and
\* one for a heading whose id was generated.
C15_Witness ==
    /\ Built
    /\ \E j, k \in 1..Len(OutlineItems) :
          /\ ~Generated(OutlineItems[j].ref)
          /\ Generated(OutlineItems[k].ref)
          /\ headings[OutlineItems[k].ref].slug # << >>

\* ------------------------------------------------ properties of the run
Ended == Built \/ Thrown

\* The number of steps a build can still take is bounded by this measure: a slot
\* of PopSlots steps for each heading not yet consumed, less the pops already done.
PopSlots == Len(HeadingTags) + 1
Measure ==
    CASE pc = "start" -> (Cardinality({ n \in DOMAIN doc : IsHeading(doc[n]) }) + 2) * PopSlots + 2
      [] pc = "collected" -> (Len(headings) + 2) * PopSlots + 1
      [] pc = "loop" -> (Len(headings) + 1 - hi) * PopSlots + (PopSlots - i)
      [] OTHER -> 0

\* C16: every build ends: while the loop over the headings has neither returned
\* nor thrown it can take a step, and every step lowers a measure that never goes
\* below zero; each step of the loop that is not an iteration of the pop loop moves
\* on by exactly one heading, and the pop loop never runs more often than the
\* difference of the depths.
C16_BuildTerminates ==
    /\ [](pc = "collected" => ENABLED (ReturnNoHeadings \/ OpenRoot))
    /\ [](pc = "loop" => ENABLED (SkipHeading \/ SameLevel \/ Deeper \/ PopFrame
                                     \/ PopThrow \/ AppendAfterPop \/ ReturnToc))
    /\ [](Measure >= 0)
    /\ [][ Measure' < Measure ]_vars
    /\ [][ (pc = "loop" /\ pc' = "loop") =>
              \/ hi' = hi + 1 /\ i' = 0
              \/ /\ hi' = hi
                 /\ i' = i + 1
                 /\ i' <= currentDepth - headings[hi].depth ]_vars

\* C16 witness: the pop loop has run twice for one heading, two levels up.
C16_Witness ==
    /\ pc = "loop"
    /\ i = 2
    /\ currentDepth - headings[hi].depth = 2

\* The heading depths of the items that lie directly in list l.
ItemDepths(l) ==
    { headings[toc[l][k].ref].depth : k \in { j \in 1..Len(toc[l]) : toc[l][j].kind = "li" } }

\* C17: while the headings are processed the frame stack is never empty and has
\* the root list at the bottom, the current parent is the top frame, the frames
\* stand for distinct depth levels, shallow to deep from bottom to top, the
\* tracked current depth is the level of the top frame, and all items of one
\* list have the same heading depth.
C17_BuildStateInvariant ==
    pc = "loop" =>
        /\ parents # << >>
        /\ parents[1] = TocList
        /\ currentParent = Last(parents)
        /\ \A a, b \in 1..Len(parents) :
              a < b => \A x \in ItemDepths(parents[a]) :
                          \A y \in ItemDepths(parents[b]) : x < y
        /\ i = 0 => \A x \in ItemDepths(currentParent) : x = currentDepth
        /\ \A l \in 1..Len(toc) : Cardinality(ItemDepths(l)) <= 1

\* C18: when the build throws, no step follows (nothing catches the Error), the
\* transformer's visit and prepend have not run, no node was added, removed or
\* moved, and the document differs from the input only in the id of the headings:
\* every heading of the document carries the slug collected for it.
C18_ErrorLeavesOnlyIds ==
    Thrown =>
        /\ ~ENABLED Next
        /\ tocNodes = << >>
        /\ ~tocInserted
        /\ walk = << >>
        /\ DOMAIN doc = DOMAIN doc0
        /\ \A n \in DOMAIN doc :
              /\ doc[n] = [doc0[n] EXCEPT !.id = doc[n].id]
              /\ ~IsHeading(doc0[n]) => doc[n].id = doc0[n].id
        /\ \A n \in DOMAIN doc0 :
              (IsHeading(doc0[n]) /\ Attached(doc0, n)) =>
                  \E k \in 1..Len(headings) :
                      /\ headings[k].node = n
                      /\ doc[n].id = headings[k].slug

\* C18 witness: the build has thrown on a document that holds a marker.
C18_Witness ==
    /\ Thrown
    /\ HasTocComment(doc0)
    /\ \E n \in DOMAIN doc : doc[n].id # doc0[n].id

\* C19: the finished transformer has no outline node to place only when the
\* document had no heading; when it had headings, all of them deeper than
\* maxDepth, the outline has no item, the build returned the template's nodes for
\* it, and these stand where the first marker (or the p it was alone in) stood,
\* or in front of the root's children when the document had no marker.
C19_OverDepthOutlineInserted ==
    pc = "done" =>
        /\ tocNodes = << >> <=> ~HasHeading(doc0)
        /\ (HasHeading(doc0) /\ \A k \in 1..Len(headings) : ~Eligible(headings[k], maxDepth)) =>
              /\ OutlineItems = << >>
              /\ toc = << << >> >>
              /\ Len(tocNodes) = template
              /\ \A k \in 1..Len(tocNodes) :
                    /\ tocNodes[k] \notin DOMAIN doc0
                    /\ doc[tocNodes[k]] = Element("aside", << >>)
              /\ IF Markers(doc0) = << >>
                 THEN doc[Root].children = tocNodes \o doc0[Root].children
                 ELSE LET t == TargetOf(doc0, Markers(doc0)[1])
                          q == ParentIn(doc0, t)
                          j == IndexOf(doc0[q].children, t)
                      IN /\ ~Attached(doc, t)
                         /\ Attached(doc, q)
                         /\ SubSeq(doc[q].children, 1, j + Len(tocNodes))
                                = SubSeq(doc0[q].children, 1, j) \o tocNodes

\* C19 witness: a document whose headings are all deeper than maxDepth, with a
\* marker after the first of them, has been transformed.
C19_Witness ==
    /\ pc = "done"
    /\ HasHeading(doc0)
    /\ \A k \in 1..Len(headings) : ~Eligible(headings[k], maxDepth)
    /\ Markers(doc0) # << >>
    /\ IndexOf(doc0[ParentIn(doc0, TargetOf(doc0, Markers(doc0)[1]))].children,
               TargetOf(doc0, Markers(doc0)[1])) > 0
    /\ tocNodes # << >>

====
